---- MODULE Spec2Model ----
(***************************************************************************)
(* A model of mongoquery (src/mongoquery/__init__.py): the Query object,   *)
(* its match operation, the field-path resolver, the operator handlers and *)
(* the $expr sub-evaluator.                                                *)
(*                                                                         *)
(* Python values are records [kind, val]:                                  *)
(*   null, bool, num, str, arr (a list), map (a dict, as the sequence of   *)
(*   its <<key, value>> items in insertion order), undef (an _Undefined    *)
(*   instance) and raise (an exception leaving the call).                  *)
(* A Python string is a text: the sequence of its symbols.  A symbol is    *)
(* one character ("a", "0", "$", "."), except that the name of an operator *)
(* after its "$" is written as one symbol ("and", "elemMatch"); str values *)
(* of the records hold one-character symbols only.  The symbol "sup2"      *)
(* stands for the one character U+00B2 (superscript two).                  *)
(***************************************************************************)
EXTENDS Integers, Sequences, FiniteSets, TLC

VARIABLES definition, entry, result, stack

vars == <<definition, entry, result, stack>>

----------------------------------------------------------------------------
(* Bounds of the model *)

\* numbers of the records and queries are 0..MaxNum
MaxNum == 1
\* lists of the records and queries have at most MaxLen elements
MaxLen == 2
\* the interpreter's recursion limit, in frames
MaxStack == 8

----------------------------------------------------------------------------
(* Values *)

Null == [kind |-> "null", val |-> 0]
Undefined == [kind |-> "undef", val |-> 0]
Bool(b) == [kind |-> "bool", val |-> b]
Num(n) == [kind |-> "num", val |-> n]
Str(t) == [kind |-> "str", val |-> t]
Arr(s) == [kind |-> "arr", val |-> s]
Map(s) == [kind |-> "map", val |-> s]
Raise(e) == [kind |-> "raise", val |-> e]

IsRaise(v) == v.kind = "raise"
IsAttributeError(v) == v.kind = "raise" /\ v.val = "AttributeError"
\* isinstance(v, Mapping)
IsMapping(v) == v.kind = "map"
\* isinstance(v, Sequence): a str is a Sequence too
IsSequence(v) == v.kind \in {"arr", "str"}
IsNonStringSequence(v) == v.kind = "arr"
\* isinstance(v, int): bool is a subclass of int
IsInt(v) == v.kind \in {"num", "bool"}
IntOf(v) == IF v.kind = "bool" THEN (IF v.val THEN 1 ELSE 0) ELSE v.val

\* the items a for loop over a Sequence yields: a str yields its characters
Elems(v) ==
    IF v.kind = "str" THEN [i \in 1..Len(v.val) |-> Str(<<v.val[i]>>)]
    ELSE v.val

\* key in mapping, mapping[key]
HasKey(m, key) == \E i \in 1..Len(m.val) : m.val[i][1] = key
MapGet(m, key) == m.val[CHOOSE i \in 1..Len(m.val) : m.val[i][1] = key][2]

\* a == b.  Every _Undefined() is a fresh instance with the default identity
\* equality, and no call site compares an instance with itself.
RECURSIVE PyEq(_, _)
PyEq(a, b) ==
    IF a.kind = "undef" \/ b.kind = "undef" THEN FALSE
    ELSE IF IsInt(a) /\ IsInt(b) THEN IntOf(a) = IntOf(b)
    ELSE IF a.kind # b.kind THEN FALSE
    ELSE IF a.kind = "null" THEN TRUE
    ELSE IF a.kind = "str" THEN a.val = b.val
    ELSE IF a.kind = "arr" THEN
        /\ Len(a.val) = Len(b.val)
        /\ \A i \in 1..Len(a.val) : PyEq(a.val[i], b.val[i])
    ELSE IF a.kind = "map" THEN
        /\ Len(a.val) = Len(b.val)
        /\ \A i \in 1..Len(a.val) :
              /\ HasKey(b, a.val[i][1])
              /\ PyEq(a.val[i][2], MapGet(b, a.val[i][1]))
    ELSE FALSE

\* bool(v)
Truthy(v) ==
    IF v.kind = "null" THEN FALSE
    ELSE IF v.kind = "bool" THEN v.val
    ELSE IF v.kind = "num" THEN v.val # 0
    ELSE IF v.kind \in {"str", "arr", "map"} THEN Len(v.val) > 0
    ELSE TRUE

\* not v
Not(v) == Bool(~Truthy(v))

\* the characters of the model in code-point order
Alphabet == <<"$", ".", "0", "1", "2", "a", "b", "k", "s", "sup2">>
SymOrd(c) == CHOOSE i \in 1..Len(Alphabet) : Alphabet[i] = c

\* the three-way order of two str: "lt", "eq" or "gt"
RECURSIVE TextCmp(_, _)
TextCmp(s, t) ==
    IF Len(s) = 0 /\ Len(t) = 0 THEN "eq"
    ELSE IF Len(s) = 0 THEN "lt"
    ELSE IF Len(t) = 0 THEN "gt"
    ELSE IF s[1] = t[1] THEN TextCmp(Tail(s), Tail(t))
    ELSE IF SymOrd(s[1]) < SymOrd(t[1]) THEN "lt"
    ELSE "gt"

\* the three-way order of a and b, or "TypeError" where Python's <, <=, >, >=
\* raise it.  Lists compare by their first unequal elements, then by length.
RECURSIVE Cmp(_, _)
Cmp(a, b) ==
    IF IsInt(a) /\ IsInt(b) THEN
        IF IntOf(a) < IntOf(b) THEN "lt"
        ELSE IF IntOf(a) = IntOf(b) THEN "eq"
        ELSE "gt"
    ELSE IF a.kind = "str" /\ b.kind = "str" THEN TextCmp(a.val, b.val)
    ELSE IF a.kind = "arr" /\ b.kind = "arr" THEN
        LET n == IF Len(a.val) < Len(b.val) THEN Len(a.val) ELSE Len(b.val)
            diff == {i \in 1..n : ~PyEq(a.val[i], b.val[i])}
        IN  IF diff # {} THEN
                LET i == CHOOSE j \in diff : \A k \in diff : j <= k
                IN  Cmp(a.val[i], b.val[i])
            ELSE IF Len(a.val) < Len(b.val) THEN "lt"
            ELSE IF Len(a.val) = Len(b.val) THEN "eq"
            ELSE "gt"
    ELSE "TypeError"

----------------------------------------------------------------------------
(* Texts *)

StartsWithDollar(t) == Len(t) > 0 /\ t[1] = "$"
\* t.find(".") != -1
HasDot(t) == \E i \in 1..Len(t) : t[i] = "."

\* t.split(".")
RECURSIVE Split(_)
Split(t) ==
    IF ~HasDot(t) THEN <<t>>
    ELSE LET i == CHOOSE j \in 1..Len(t) :
                     t[j] = "." /\ \A k \in 1..(j - 1) : t[k] # "."
         IN  <<SubSeq(t, 1, i - 1)>> \o Split(SubSeq(t, i + 1, Len(t)))

\* ".".join(segs)
RECURSIVE Join(_)
Join(segs) ==
    IF Len(segs) = 0 THEN <<>>
    ELSE IF Len(segs) = 1 THEN segs[1]
    ELSE segs[1] \o <<".">> \o Join(Tail(segs))

\* needle in hay, for two str
Contains(hay, needle) ==
    \E i \in 0..(Len(hay) - Len(needle)) :
        SubSeq(hay, i + 1, i + Len(needle)) = needle

DecimalSymbols == {"0", "1", "2"}
\* str.isdigit() is true of the decimal digits and of the digits that are not
\* decimal, such as the superscripts
DigitSymbols == DecimalSymbols \cup {"sup2"}
IsDigit(seg) == Len(seg) > 0 /\ \A i \in 1..Len(seg) : seg[i] \in DigitSymbols
\* int(seg) returns a number; it raises ValueError otherwise
IntParses(seg) == Len(seg) > 0 /\ \A i \in 1..Len(seg) : seg[i] \in DecimalSymbols
DigitVal(c) == SymOrd(c) - SymOrd("0")
RECURSIVE IntOfSeg(_)
IntOfSeg(seg) ==
    IF Len(seg) = 0 THEN 0
    ELSE 10 * IntOfSeg(SubSeq(seg, 1, Len(seg) - 1)) + DigitVal(seg[Len(seg)])

----------------------------------------------------------------------------
(* Generators: all(...), any(...) and list comprehensions evaluate their   *)
(* items in order; an item that raises ends the evaluation.                *)

FirstIn(S) == CHOOSE i \in S : \A j \in S : i <= j

\* all(rs)
AllOf(rs) ==
    LET stop == {i \in 1..Len(rs) : IsRaise(rs[i]) \/ ~Truthy(rs[i])}
        first == rs[FirstIn(stop)]
    IN  IF stop = {} THEN Bool(TRUE)
        ELSE IF IsRaise(first) THEN first
        ELSE Bool(FALSE)

\* any(rs)
AnyOf(rs) ==
    LET stop == {i \in 1..Len(rs) : IsRaise(rs[i]) \/ Truthy(rs[i])}
        first == rs[FirstIn(stop)]
    IN  IF stop = {} THEN Bool(FALSE)
        ELSE IF IsRaise(first) THEN first
        ELSE Bool(TRUE)

\* [f(x) for x in xs], given the items' results rs
ListOf(rs) ==
    LET stop == {i \in 1..Len(rs) : IsRaise(rs[i])}
    IN  IF stop = {} THEN Arr(rs) ELSE rs[FirstIn(stop)]

----------------------------------------------------------------------------
(* Path resolver *)

\* mutant of Extract: null for a path that does not resolve
RECURSIVE ExtractNullForMissing(_, _)
ExtractNullForMissing(e, path) ==
    IF Len(path) = 0 THEN e
    ELSE IF e.kind = "null" THEN e
    ELSE IF IsNonStringSequence(e) THEN
        IF IntParses(path[1]) THEN
            IF IntOfSeg(path[1]) >= Len(e.val) THEN Raise("IndexError")
            ELSE ExtractNullForMissing(e.val[IntOfSeg(path[1]) + 1], Tail(path))
        ELSE ListOf([i \in 1..Len(e.val) |-> ExtractNullForMissing(e.val[i], path)])
    ELSE IF IsMapping(e) /\ HasKey(e, path[1]) THEN
        ExtractNullForMissing(MapGet(e, path[1]), Tail(path))
    ELSE Null

\* Query._extract(entry, path): a value, or IndexError
RECURSIVE Extract(_, _)
Extract(e, path) ==
    IF Len(path) = 0 THEN e
    ELSE IF e.kind = "null" THEN e
    ELSE IF IsNonStringSequence(e) THEN
        IF IntParses(path[1]) THEN
            IF IntOfSeg(path[1]) >= Len(e.val) THEN Raise("IndexError")
            ELSE Extract(e.val[IntOfSeg(path[1]) + 1], Tail(path))
        ELSE ListOf([i \in 1..Len(e.val) |-> Extract(e.val[i], path)])
    ELSE IF IsMapping(e) /\ HasKey(e, path[1]) THEN
        Extract(MapGet(e, path[1]), Tail(path))
    ELSE Undefined

\* Query._path_exists(operator, condition, entry), from the i-th key on.
\* A str is a Sequence whose elements are str again: on a str that is not
\* empty a key that is not a digit recurses on a one-character str for ever,
\* which Python ends with RecursionError (StepPathExists below takes the steps).
RECURSIVE PathWalk(_, _, _, _)
RECURSIVE PathExists(_, _, _)
PathWalk(keys, i, condition, e) ==
    IF i > Len(keys) THEN condition
    ELSE IF IsSequence(e) /\ ~IsDigit(keys[i]) THEN
        IF e.kind = "str" /\ Len(e.val) > 0 THEN Raise("RecursionError")
        ELSE
            LET operator == Join(SubSeq(keys, i, Len(keys)))
                rs == [j \in 1..Len(e.val) |-> PathExists(operator, condition, e.val[j])]
                stop == {j \in 1..Len(rs) : IsRaise(rs[j]) \/ PyEq(rs[j], condition)}
            IN  IF stop = {} THEN Not(condition)
                ELSE IF IsRaise(rs[FirstIn(stop)]) THEN rs[FirstIn(stop)]
                ELSE condition
    ELSE IF IsSequence(e) THEN
        IF ~IntParses(keys[i]) THEN Raise("ValueError")
        ELSE IF IntOfSeg(keys[i]) >= Len(e.val) THEN Not(condition)
        ELSE PathWalk(keys, i + 1, condition, Elems(e)[IntOfSeg(keys[i]) + 1])
    ELSE IF IsMapping(e) /\ HasKey(e, keys[i]) THEN
        PathWalk(keys, i + 1, condition, MapGet(e, keys[i]))
    ELSE Not(condition)

PathExists(operator, condition, e) == PathWalk(Split(operator), 1, condition, e)

----------------------------------------------------------------------------
(* Core matcher and operator handlers *)

ExistsKey == <<"$", "exists">>

\* the names getattr(self, "_" + name) finds on a Query: the operators ...
Registered ==
    {"eq", "ne", "gt", "gte", "lt", "lte", "in", "nin", "and", "or", "nor",
     "not", "exists", "type", "mod", "regex", "options", "text", "where",
     "all", "elemMatch", "size", "comment", "expr"}
\* ... and, among the other attributes whose names start with "_", these
Internal ==
    {"match", "path_exists", "process_condition", "not_implemented", "noop",
     "expr_concat", "resolve_expr", "process_expr_condition", "definition"}
QueryAttrs == {<<n>> : n \in Registered \cup Internal}

\* operator in entry
KeyIn(operator, e) ==
    IF IsMapping(e) THEN Bool(HasKey(e, operator))
    ELSE IF e.kind = "arr" THEN
        Bool(\E i \in 1..Len(e.val) : PyEq(Str(operator), e.val[i]))
    ELSE IF e.kind = "str" THEN Bool(Contains(e.val, operator))
    ELSE Raise("TypeError")

\* Query._eq, _ne, _gt, _gte, _lt, _lte
HandleEq(condition, e) == Bool(PyEq(e, condition))
HandleNe(condition, e) == Bool(~PyEq(e, condition))
HandleGt(condition, e) == Bool(Cmp(e, condition) = "gt")
HandleGte(condition, e) == Bool(Cmp(e, condition) \in {"gt", "eq"})
HandleLt(condition, e) == Bool(Cmp(e, condition) = "lt")
HandleLte(condition, e) == Bool(Cmp(e, condition) \in {"lt", "eq"})

\* Query._in
HandleIn(condition, e) ==
    IF IsNonStringSequence(condition) THEN
        Bool(\E i \in 1..Len(condition.val) :
                IF IsNonStringSequence(e)
                THEN \E j \in 1..Len(e.val) : PyEq(condition.val[i], e.val[j])
                ELSE PyEq(condition.val[i], e))
    ELSE Raise("TypeError")

\* Query._nin
HandleNin(condition, e) ==
    LET r == HandleIn(condition, e)
    IN  IF IsRaise(r) THEN r ELSE Not(r)

\* Query._size
HandleSize(condition, e) ==
    IF ~IsInt(condition) THEN Raise("QueryError.argument")
    ELSE IF IsNonStringSequence(e) THEN Bool(Len(e.val) = IntOf(condition))
    ELSE Bool(FALSE)

\* the comparison handlers by operator name, as QUERY_OPS names them
QueryOp(name, condition, e) ==
    CASE name = "eq" -> HandleEq(condition, e)
      [] name = "ne" -> HandleNe(condition, e)
      [] name = "gt" -> HandleGt(condition, e)
      [] name = "gte" -> HandleGte(condition, e)
      [] name = "lt" -> HandleLt(condition, e)
      [] name = "lte" -> HandleLte(condition, e)
      [] name = "in" -> HandleIn(condition, e)
      [] name = "nin" -> HandleNin(condition, e)
QueryOps == {"eq", "gt", "gte", "in", "lt", "lte", "ne", "nin"}

RECURSIVE Match(_, _)
RECURSIVE ProcessCondition(_, _, _)
RECURSIVE Handler(_, _, _)
RECURSIVE ResolveExpr(_, _)
RECURSIVE ExprConcat(_, _)
RECURSIVE ProcessExprCondition(_, _, _)

\* Query._match(condition, entry)
Match(condition, e) ==
    IF IsMapping(condition) THEN
        AllOf([i \in 1..Len(condition.val) |->
                  ProcessCondition(condition.val[i][1], condition.val[i][2], e)])
    ELSE IF IsNonStringSequence(e) THEN
        Bool(\E i \in 1..Len(e.val) : PyEq(condition, e.val[i]))
    ELSE Bool(PyEq(condition, e))

\* Query._and, _or, _nor, _not
HandleAnd(condition, e) ==
    IF IsSequence(condition) THEN
        AllOf([i \in 1..Len(condition.val) |-> Match(Elems(condition)[i], e)])
    ELSE Raise("QueryError.argument")

HandleOr(condition, e) ==
    IF IsSequence(condition) THEN
        AnyOf([i \in 1..Len(condition.val) |-> Match(Elems(condition)[i], e)])
    ELSE Raise("QueryError.argument")

\* mutant of HandleNor: "not all(...)" for "all(not ...)"
HandleNorNotAll(condition, e) ==
    IF IsSequence(condition) THEN
        LET r == HandleAnd(condition, e)
        IN  IF IsRaise(r) THEN r ELSE Not(r)
    ELSE Raise("QueryError.argument")

HandleNor(condition, e) ==
    IF IsSequence(condition) THEN
        AllOf([i \in 1..Len(condition.val) |->
                  LET r == Match(Elems(condition)[i], e)
                  IN  IF IsRaise(r) THEN r ELSE Not(r)])
    ELSE Raise("QueryError.argument")

HandleNot(condition, e) ==
    LET r == Match(condition, e)
    IN  IF IsRaise(r) THEN r ELSE Not(r)

\* Query._all: the loop is over any iterable, a dict yielding its keys
HandleAll(condition, e) ==
    IF IsSequence(condition) THEN
        AllOf([i \in 1..Len(condition.val) |-> Match(Elems(condition)[i], e)])
    ELSE IF IsMapping(condition) THEN
        AllOf([i \in 1..Len(condition.val) |-> Match(Str(condition.val[i][1]), e)])
    ELSE Raise("TypeError")

\* Query._elemMatch: condition.items() is first evaluated for the first element
HandleElemMatch(condition, e) ==
    IF ~IsSequence(e) THEN Bool(FALSE)
    ELSE IF Len(e.val) = 0 THEN Bool(FALSE)
    ELSE IF ~IsMapping(condition) THEN Raise("AttributeError")
    ELSE AnyOf([j \in 1..Len(e.val) |->
                   AllOf([i \in 1..Len(condition.val) |->
                             ProcessCondition(condition.val[i][1],
                                              condition.val[i][2], Elems(e)[j])])])

\* Query._expr_concat
ExprConcat(condition, e) ==
    IF ~IsSequence(condition) THEN Raise("AssertionError")
    ELSE LET resolved == ListOf([i \in 1..Len(condition.val) |->
                                    ResolveExpr(Elems(condition)[i], e)])
         IN  IF IsRaise(resolved) THEN resolved
             ELSE IF \E i \in 1..Len(resolved.val) : resolved.val[i].kind # "str"
                 THEN Raise("QueryError.concat")
             ELSE Str(Join([i \in 1..Len(resolved.val) |-> resolved.val[i].val]))

\* Query._resolve_expr
ResolveExpr(condition, e) ==
    IF IsMapping(condition) THEN
        IF Len(condition.val) # 1 THEN Raise("AssertionError")
        ELSE IF Tail(condition.val[1][1]) = <<"concat">> THEN
            LET r == ExprConcat(condition.val[1][2], e)
            IN  IF IsAttributeError(r) THEN Raise("QueryError.expr") ELSE r
        ELSE Raise("QueryError.expr")
    ELSE IF IsNonStringSequence(condition) THEN
        ListOf([i \in 1..Len(condition.val) |-> ResolveExpr(condition.val[i], e)])
    ELSE IF condition.kind = "str" /\ StartsWithDollar(condition.val) THEN
        Extract(e, Split(Tail(condition.val)))
    ELSE condition

\* mutant of ProcessExprCondition: the handler gets the operands in the
\* order of the list
ProcessExprConditionInOrder(operator, condition, e) ==
    IF ~StartsWithDollar(operator) THEN Raise("AssertionError")
    ELSE IF ~IsSequence(condition) THEN Raise("AssertionError")
    ELSE IF \E n \in QueryOps : operator = <<"$", n>> THEN
        IF Len(condition.val) # 2 THEN Raise("AssertionError")
        ELSE LET resolved == ListOf([i \in 1..2 |-> ResolveExpr(Elems(condition)[i], e)])
             IN  IF IsRaise(resolved) THEN resolved
                 ELSE QueryOp(operator[2], resolved.val[1], resolved.val[2])
    ELSE IF Tail(operator) = <<"concat">> THEN
        LET r == ExprConcat(condition, e)
        IN  IF IsAttributeError(r) THEN Raise("QueryError.expr") ELSE r
    ELSE Raise("QueryError.expr")

\* Query._process_expr_condition
ProcessExprCondition(operator, condition, e) ==
    IF ~StartsWithDollar(operator) THEN Raise("AssertionError")
    ELSE IF ~IsSequence(condition) THEN Raise("AssertionError")
    ELSE IF \E n \in QueryOps : operator = <<"$", n>> THEN
        IF Len(condition.val) # 2 THEN Raise("AssertionError")
        ELSE LET resolved == ListOf([i \in 1..2 |-> ResolveExpr(Elems(condition)[i], e)])
             IN  IF IsRaise(resolved) THEN resolved
                 ELSE QueryOp(operator[2], resolved.val[2], resolved.val[1])
    ELSE IF Tail(operator) = <<"concat">> THEN
        LET r == ExprConcat(condition, e)
        IN  IF IsAttributeError(r) THEN Raise("QueryError.expr") ELSE r
    ELSE Raise("QueryError.expr")

\* Query._expr
HandleExpr(condition, e) ==
    IF ~IsMapping(condition) THEN Raise("AssertionError")
    ELSE AllOf([i \in 1..Len(condition.val) |->
                   ProcessExprCondition(condition.val[i][1], condition.val[i][2], e)])

\* getattr(self, "_" + name)(condition, entry), for a name getattr finds.
\* $type, $mod and $regex are registered and no query of the model uses them.
Handler(name, condition, e) ==
    CASE name \in QueryOps -> QueryOp(name, condition, e)
      [] name = "and" -> HandleAnd(condition, e)
      [] name = "or" -> HandleOr(condition, e)
      [] name = "nor" -> HandleNor(condition, e)
      [] name = "not" -> HandleNot(condition, e)
      [] name \in {"exists", "comment", "noop"} -> Bool(TRUE)
      [] name \in {"options", "text", "where", "not_implemented"} ->
            Raise("NotImplementedError")
      [] name = "all" -> HandleAll(condition, e)
      [] name = "elemMatch" -> HandleElemMatch(condition, e)
      [] name = "size" -> HandleSize(condition, e)
      [] name = "expr" -> HandleExpr(condition, e)
      [] name = "match" -> Match(condition, e)
      [] name = "resolve_expr" -> ResolveExpr(condition, e)
      [] name = "expr_concat" -> ExprConcat(condition, e)
      [] name \in {"path_exists", "process_condition", "process_expr_condition",
                   "definition"} -> Raise("TypeError")

\* the part of Query._process_condition that handles $exists: a result, or
\* "fall" when the rest of the method decides
ExistsStep(operator, condition, e) ==
    IF IsMapping(condition) /\ HasKey(condition, ExistsKey) THEN
        IF HasDot(operator) THEN
            PathExists(operator, MapGet(condition, ExistsKey), e)
        ELSE LET found == KeyIn(operator, e)
             IN  IF IsRaise(found) THEN found
                 ELSE IF ~PyEq(MapGet(condition, ExistsKey), found) THEN Bool(FALSE)
                 ELSE IF Len(condition.val) = 1 THEN Bool(TRUE)
                 ELSE [kind |-> "fall", val |-> 0]
    ELSE [kind |-> "fall", val |-> 0]

\* extracted_data of Query._process_condition: an IndexError is caught
ExtractedData(operator, e) ==
    LET r == Extract(e, Split(operator))
    IN  IF IsRaise(r) THEN Undefined ELSE r

\* the call of the operator's handler: an AttributeError, of the lookup or
\* from inside the handler, becomes the QueryError of an unsupported operator
Dispatch(operator, condition, e) ==
    IF Tail(operator) \notin QueryAttrs THEN Raise("QueryError.unsupported")
    ELSE LET r == Handler(operator[2], condition, e)
         IN  IF IsAttributeError(r) THEN Raise("QueryError.unsupported") ELSE r

\* Query._process_condition(operator, condition, entry); every key of the
\* model is a str
ProcessCondition(operator, condition, e) ==
    LET r == ExistsStep(operator, condition, e)
    IN  IF r.kind # "fall" THEN r
        ELSE IF StartsWithDollar(operator) THEN Dispatch(operator, condition, e)
        ELSE Match(condition, ExtractedData(operator, e))

----------------------------------------------------------------------------
(* The Query object: Query(definition), then match(entry).  Each           *)
(* specification draws the queries and the records from sets of its own.   *)

Unset == [kind |-> "unset", val |-> 0]

Init ==
    /\ definition = Unset
    /\ entry = Unset
    /\ result = Unset
    /\ stack = <<>>

\* Query.__init__(definition): once for a Query object
Construct(queries) ==
    /\ definition.kind = "unset"
    /\ \E q \in queries :
        /\ definition' = q
        /\ entry' = Unset
        /\ result' = Unset
        /\ UNCHANGED stack

\* Query.match(entry).  A call reads the definition and changes nothing of
\* the Query, so that one call for each Query shows what every call does.
MatchCall(records) ==
    /\ definition.kind # "unset"
    /\ entry.kind = "unset"
    /\ \E r \in records :
        /\ entry' = r
        /\ result' = Match(definition, r)
        /\ UNCHANGED <<definition, stack>>

Matched == result.kind # "unset"
Same(a, b) == a.kind = b.kind /\ a.val = b.val
Returned(b) == result.kind = "bool" /\ result.val = b

\* a query or condition of one key
Q1(key, condition) == Map(<< <<key, condition>> >>)
Op(name) == <<"$", name>>
IsQ1(q) == q.kind = "map" /\ Len(q.val) = 1
KeyOf(q) == q.val[1][1]
CondOf(q) == q.val[1][2]

Nums == {Num(n) : n \in 0..MaxNum}
Bools == {Bool(TRUE), Bool(FALSE)}
\* the lists of at most MaxLen elements of S
Lists(S) == {Arr(s) : s \in UNION {[1..n -> S] : n \in 0..MaxLen}}

----------------------------------------------------------------------------
(* Logical operators *)

LogicLits == {Null, Str(<<"a">>)} \cup Nums

LogicBase ==
    LogicLits
    \cup {Q1(<<"a">>, c) : c \in LogicLits}
    \cup {Q1(<<"a">>, Q1(Op(o), n)) : o \in {"gt", "ne"}, n \in Nums}
    \cup {Q1(<<"a">>, Q1(ExistsKey, w)) : w \in Bools}
    \cup {Q1(ExistsKey, w) : w \in Bools}
    \cup {Q1(Op("in"), Arr(<<n>>)) : n \in Nums}
    \cup {Q1(<<"a">>, Q1(Op("size"), n)) : n \in Nums}
    \cup {Q1(Op("not"), Num(0)), Q1(Op("bogus"), Num(0)), Q1(Op("in"), Num(0))}

LogicQueries ==
    {Q1(Op(o), Arr(<<q1, q2>>)) : o \in {"and", "or", "nor"}, q1 \in LogicBase, q2 \in LogicBase}
    \cup {Q1(Op("not"), q) : q \in LogicBase}

LogicRecords ==
    LogicLits
    \cup {Map(<<>>)}
    \cup {Q1(<<"a">>, v) : v \in LogicLits \cup {Arr(<<n>>) : n \in Nums}}
    \cup Lists(Nums)

NextLogic == Construct(LogicQueries) \/ MatchCall(LogicRecords)
SpecLogic == Init /\ [][NextLogic]_vars

Sub1 == CondOf(definition).val[1]
Sub2 == CondOf(definition).val[2]
IsLogical == Matched /\ IsQ1(definition) /\ KeyOf(definition) \in {Op("and"), Op("or"), Op("nor")}
BothSucceed == ~IsRaise(Match(Sub1, entry)) /\ ~IsRaise(Match(Sub2, entry))

\* C1: for queries q1, q2 whose own matches against r do not fail,
\* match({$and: [q1, q2]}, r) is match(q1, r) and match(q2, r),
\* match({$or: [q1, q2]}, r) is match(q1, r) or match(q2, r), and
\* match({$nor: [q1, q2]}, r) is (not match(q1, r)) and (not match(q2, r)).
C1_LogicalOperators ==
    IsLogical =>
        LET r1 == Match(Sub1, entry)
            r2 == Match(Sub2, entry)
            m1 == Truthy(r1)
            m2 == Truthy(r2)
        IN  (~IsRaise(r1) /\ ~IsRaise(r2)) =>
                /\ KeyOf(definition) = Op("and") => Returned(m1 /\ m2)
                /\ KeyOf(definition) = Op("or") => Returned(m1 \/ m2)
                /\ KeyOf(definition) = Op("nor") => Returned(~m1 /\ ~m2)

\* a $nor of one query that matches and one that does not
C1_Witness ==
    /\ IsLogical /\ BothSucceed
    /\ KeyOf(definition) = Op("nor")
    /\ Truthy(Match(Sub1, entry)) /\ ~Truthy(Match(Sub2, entry))
    /\ Returned(FALSE)

\* C2: for a query q1 of any shape, $exists among its keys or not,
\* match({$not: q1}, r) is the negation of match(q1, r).
C2_NotNegates ==
    (/\ Matched /\ IsQ1(definition) /\ KeyOf(definition) = Op("not")
     /\ ~IsRaise(Match(CondOf(definition), entry)))
        => Returned(~Truthy(Match(CondOf(definition), entry)))

----------------------------------------------------------------------------
(* Operator dispatch and malformed arguments *)

DispatchNames ==
    {"bogus", "match", "noop", "eq", "and", "or", "nor", "in", "nin", "size",
     "elemMatch", "where"}

DispatchConds ==
    {Null, Str(<<"a">>), Str(<<"a", "b">>), Arr(<<>>), Arr(<<Num(0)>>), Map(<<>>),
     Q1(<<"a">>, Num(0))}
    \cup Nums
    \cup {Q1(ExistsKey, w) : w \in Bools}

DispatchQueries == {Q1(Op(n), c) : n \in DispatchNames, c \in DispatchConds}

DispatchRecords ==
    {Null, Str(<<"a">>), Arr(<<>>), Arr(<<Num(0)>>), Map(<<>>), Q1(<<"a">>, Num(0))}
    \cup Nums

NextDispatch == Construct(DispatchQueries) \/ MatchCall(DispatchRecords)
SpecDispatch == Init /\ [][NextDispatch]_vars

IsOperatorQuery == Matched /\ IsQ1(definition) /\ StartsWithDollar(KeyOf(definition))
IsQueryError(v) ==
    /\ v.kind = "raise"
    /\ v.val \in {"QueryError.unsupported", "QueryError.argument",
                  "QueryError.expr", "QueryError.concat"}
IsUnsupported(v) == v.kind = "raise" /\ v.val = "QueryError.unsupported"

\* C3: a "$" key whose name is not a registered operator makes match fail
\* with a QueryError, whatever the condition and the record; and the
\* QueryError of an unsupported operator is raised for such a key only.
C3_UnregisteredOperator ==
    IsOperatorQuery =>
        /\ Tail(KeyOf(definition)) \notin {<<n>> : n \in Registered} => IsQueryError(result)
        /\ IsUnsupported(result) => Tail(KeyOf(definition)) \notin {<<n>> : n \in Registered}

\* C4: $and, $or, $nor with a condition that is a string, a number, null or
\* a mapping, $in, $nin with a condition that is not an array, and $size
\* with a condition that is not an integer make match fail with a QueryError.
C4_MalformedArgument ==
    (/\ IsOperatorQuery
     /\ \/ /\ KeyOf(definition) \in {Op("and"), Op("or"), Op("nor")}
           /\ CondOf(definition).kind \in {"str", "num", "null", "map"}
        \/ /\ KeyOf(definition) \in {Op("in"), Op("nin")}
           /\ CondOf(definition).kind # "arr"
        \/ /\ KeyOf(definition) = Op("size")
           /\ CondOf(definition).kind # "num")
        => IsQueryError(result)

----------------------------------------------------------------------------
(* Field paths *)

PathKeys ==
    {<<s1, ".", s2>> : s1 \in {"a", "0"}, s2 \in {"a", "b", "0", "1", "sup2"}}
    \cup {<<"a", ".", s2, ".", s3>> : s2 \in {"b", "0"}, s3 \in {"b", "0"}}

PathLeaves == {Null} \cup Nums
PathInner ==
    PathLeaves
    \cup {Map(<<>>)}
    \cup {Q1(<<"b">>, v) : v \in PathLeaves}
    \cup {Arr(<<v>>) : v \in PathLeaves}
PathMid ==
    PathInner
    \cup Lists(PathInner)
    \cup {Q1(<<"b">>, v) : v \in Lists(PathLeaves)}
PathRecords == PathMid \cup {Q1(<<"a">>, v) : v \in PathMid}

PathQueries ==
    {Q1(p, Q1(ExistsKey, w)) : p \in PathKeys, w \in Bools}
    \cup {Q1(p, c) : p \in PathKeys \cup {<<"a">>}, c \in {Null, Num(0)}}
    \cup {Q1(Op("expr"), Q1(Op("eq"), Arr(<<Str(<<"$">> \o p), c>>))) :
            p \in PathKeys \cup {<<"a">>}, c \in {Null, Num(0)}}

NextPath == Construct(PathQueries) \/ MatchCall(PathRecords)
SpecPath == Init /\ [][NextPath]_vars

IsFieldQuery == Matched /\ IsQ1(definition) /\ ~StartsWithDollar(KeyOf(definition))
IsExistsQuery ==
    /\ IsFieldQuery
    /\ IsQ1(CondOf(definition))
    /\ KeyOf(CondOf(definition)) = ExistsKey
    /\ CondOf(CondOf(definition)).kind = "bool"
IsExprQuery == Matched /\ IsQ1(definition) /\ KeyOf(definition) = Op("expr")

\* C5: resolving a field path never makes match fail, a missing key, a
\* segment applied to a scalar and an index out of range included, for a
\* path that is a key of the query and for a $field reference inside $expr.
C5_PathNeverFails ==
    ((IsFieldQuery /\ ~IsExistsQuery) \/ IsExprQuery) => ~IsRaise(result)

\* "p exists in r": a segment that is not numeric, applied to an array,
\* exists iff the rest of the path exists in at least one element
RECURSIVE ExistsAt(_, _)
ExistsAt(segs, v) ==
    IF Len(segs) = 0 THEN TRUE
    ELSE IF v.kind = "arr" THEN
        IF IsDigit(segs[1]) THEN
            /\ IntParses(segs[1])
            /\ IntOfSeg(segs[1]) < Len(v.val)
            /\ ExistsAt(Tail(segs), v.val[IntOfSeg(segs[1]) + 1])
        ELSE \E i \in 1..Len(v.val) : ExistsAt(segs, v.val[i])
    ELSE IF v.kind = "map" THEN
        HasKey(v, segs[1]) /\ ExistsAt(Tail(segs), MapGet(v, segs[1]))
    ELSE FALSE

\* C6: for a dotted key p, a boolean w and a record r of mappings, arrays,
\* numbers and null, match({p: {$exists: w}}, r) is true iff w equals
\* "p exists in r".
C6_ExistsOnPath ==
    (IsExistsQuery /\ HasDot(KeyOf(definition))) =>
        Returned(CondOf(CondOf(definition)).val
                     = ExistsAt(Split(KeyOf(definition)), entry))

\* the same, for the paths whose digits are all decimal
ExistsOnDecimalPath ==
    (/\ IsExistsQuery /\ HasDot(KeyOf(definition))
     /\ \A i \in 1..Len(KeyOf(definition)) : KeyOf(definition)[i] # "sup2") =>
        Returned(CondOf(CondOf(definition)).val
                     = ExistsAt(Split(KeyOf(definition)), entry))

----------------------------------------------------------------------------
(* $exists on a key without a dot *)

ExistsRecords ==
    {Null, Str(<<>>), Str(<<"k">>), Str(<<"a", "k">>), Arr(<<>>), Arr(<<Str(<<"k">>)>>),
     Map(<<>>), Q1(<<"k">>, Null), Q1(<<"a">>, Num(0))}
    \cup Nums
    \cup {Q1(<<"a">>, Arr(<<v>>)) :
            v \in {Null, Num(0), Str(<<"k">>), Map(<<>>), Q1(<<"k">>, Num(0))}}

ExistsQueries ==
    {Q1(k, Q1(ExistsKey, w)) : k \in {<<"a">>, <<"k">>}, w \in Bools}
    \cup {Q1(<<"a">>, Q1(Op("elemMatch"), Q1(k, Q1(ExistsKey, w)))) :
            k \in {<<"a">>, <<"k">>}, w \in Bools}

NextExists == Construct(ExistsQueries) \/ MatchCall(ExistsRecords)
SpecExists == Init /\ [][NextExists]_vars

\* C10: for a key k without a dot, a boolean w and an entry of any shape,
\* the condition {k: {$exists: w}} is true iff w equals "the entry is a
\* mapping that contains k"; an entry that is not a mapping causes no error.
C10_ExistsOnKey ==
    (IsExistsQuery /\ ~HasDot(KeyOf(definition))) =>
        Returned(CondOf(CondOf(definition)).val
                     = (IsMapping(entry) /\ HasKey(entry, KeyOf(definition))))

----------------------------------------------------------------------------
(* The Undefined marker *)

UndefKeys == {<<"a">>, <<"k">>}
UndefLits ==
    {Null, Str(<<>>), Str(<<"a">>)} \cup Bools \cup Nums \cup Lists({Null} \cup Nums)
UndefQueries ==
    {Q1(k, c) : k \in UndefKeys, c \in UndefLits}
    \cup {Q1(k, Q1(Op("eq"), c)) : k \in UndefKeys, c \in UndefLits}
    \cup {Q1(k, Q1(Op("in"), Arr(<<c>>))) : k \in UndefKeys, c \in UndefLits}
UndefVals == {Null} \cup Nums
UndefRecords ==
    {Map(<<>>)}
    \cup {Q1(k, v) : k \in UndefKeys \cup {<<"b">>}, v \in UndefVals}
    \cup {Map(<< <<<<"a">>, v>>, <<<<"k">>, w>> >>) : v \in UndefVals, w \in UndefVals}

NextUndef == Construct(UndefQueries) \/ MatchCall(UndefRecords)
SpecUndef == Init /\ [][NextUndef]_vars

\* the literal c of {k: c}, {k: {$eq: c}} and {k: {$in: [c]}}
LiteralOf(q) ==
    IF ~IsMapping(CondOf(q)) THEN CondOf(q)
    ELSE IF KeyOf(CondOf(q)) = Op("eq") THEN CondOf(CondOf(q))
    ELSE CondOf(CondOf(q)).val[1]

\* C9: for a mapping r without the top-level key k and a literal c (null, a
\* boolean, a number, a string or an array), match({k: c}, r),
\* match({k: {$eq: c}}, r) and match({k: {$in: [c]}}, r) are false; against a
\* record with k set to null they are true for c = null.
C9_UndefinedEqualsNothing ==
    (IsFieldQuery /\ IsMapping(entry)) =>
        /\ ~HasKey(entry, KeyOf(definition)) => Returned(FALSE)
        /\ (/\ HasKey(entry, KeyOf(definition))
            /\ MapGet(entry, KeyOf(definition)).kind = "null"
            /\ LiteralOf(definition).kind = "null") => Returned(TRUE)

\* {k: {$in: [null]}} against a mapping without k
C9_Witness ==
    /\ IsFieldQuery /\ IsMapping(entry)
    /\ ~HasKey(entry, KeyOf(definition))
    /\ IsMapping(CondOf(definition))
    /\ KeyOf(CondOf(definition)) = Op("in")
    /\ LiteralOf(definition).kind = "null"
    /\ Returned(FALSE)

----------------------------------------------------------------------------
(* $expr comparisons *)

ExprOps == {"eq", "ne", "gt", "gte", "lt", "lte"}
ExprArgs ==
    {Str(<<"$", "a">>), Str(<<"$", "b">>), Str(<<"$", "a", ".", "0">>), Str(<<"a">>),
     Null, Arr(<<Str(<<"$", "b">>)>>)}
    \cup Nums
ExprQueries ==
    {Q1(Op("expr"), Q1(Op(o), Arr(<<x, y>>))) : o \in ExprOps, x \in ExprArgs, y \in ExprArgs}
ExprScalars == {Null, Str(<<"a">>), Str(<<"b">>)} \cup Nums
ExprRecords ==
    {Map(<<>>)}
    \cup {Q1(<<"a">>, v) : v \in ExprScalars \cup Lists(Nums)}
    \cup {Map(<< <<<<"a">>, v>>, <<<<"b">>, w>> >>) : v \in ExprScalars, w \in ExprScalars}

NextExpr == Construct(ExprQueries) \/ MatchCall(ExprRecords)
SpecExpr == Init /\ [][NextExpr]_vars

\* x OP y as Python evaluates it, false where the operands do not compare
Compares(o, x, y) ==
    CASE o = "eq" -> PyEq(x, y)
      [] o = "ne" -> ~PyEq(x, y)
      [] o = "gt" -> Cmp(x, y) = "gt"
      [] o = "gte" -> Cmp(x, y) \in {"gt", "eq"}
      [] o = "lt" -> Cmp(x, y) = "lt"
      [] o = "lte" -> Cmp(x, y) \in {"lt", "eq"}

ExprOp == KeyOf(CondOf(definition))[2]
ExprLeft == ResolveExpr(CondOf(CondOf(definition)).val[1], entry)
ExprRight == ResolveExpr(CondOf(CondOf(definition)).val[2], entry)

\* C8: for OP among $eq, $ne, $gt, $gte, $lt, $lte, match({$expr: {OP: [a, b]}}, r)
\* is the OP handler applied with resolved(a) as the entry and resolved(b) as
\* the condition: true iff resolved(a) OP resolved(b).  (A resolution that
\* fails makes the match fail the same way.)
C8_ExprComparison ==
    IsExprQuery =>
        IF IsRaise(ExprLeft) THEN Same(result, ExprLeft)
        ELSE IF IsRaise(ExprRight) THEN Same(result, ExprRight)
        ELSE /\ Same(result, QueryOp(ExprOp, ExprRight, ExprLeft))
             /\ Returned(Compares(ExprOp, ExprLeft, ExprRight))

\* {$expr: {$gt: ["$a", "$b"]}} against a record whose a is greater than its b
C8_Witness ==
    /\ IsExprQuery
    /\ ExprOp = "gt"
    /\ CondOf(CondOf(definition)).val[1] = Str(<<"$", "a">>)
    /\ CondOf(CondOf(definition)).val[2] = Str(<<"$", "b">>)
    /\ ExprLeft.kind = "num" /\ ExprRight.kind = "num"
    /\ ExprLeft.val > ExprRight.val
    /\ Returned(TRUE)

----------------------------------------------------------------------------
(* The call stack of match.  A frame is one call of a method of Query: its *)
(* arguments and locals, and pc: "run", "wait" (for the call it made) or   *)
(* "got" (the call returned ret, a value or an exception).  The queries of *)
(* this specification hold field keys only, with a literal or {$exists: w} *)
(* as the condition.                                                       *)

Frame(fn, key, path, cond, ent) ==
    [fn |-> fn, pc |-> "run", key |-> key, path |-> path, cond |-> cond,
     ent |-> ent, i |-> 1, j |-> 1, acc |-> <<>>, ret |-> Unset]

Top == stack[Len(stack)]
SetTop(f) == [stack EXCEPT ![Len(stack)] = f]
TopIs(fn) == Len(stack) > 0 /\ Top.fn = fn

\* the top frame, left as f, calls g; past the recursion limit the call
\* raises RecursionError in the caller
Call(f, g) ==
    /\ stack' = IF Len(stack) >= MaxStack
                THEN SetTop([f EXCEPT !.pc = "got", !.ret = Raise("RecursionError")])
                ELSE Append(SetTop([f EXCEPT !.pc = "wait"]), g)
    /\ UNCHANGED <<definition, entry, result>>

\* the top frame returns v, or raises it
Return(v) ==
    /\ stack' = IF Len(stack) = 1 THEN <<>>
                ELSE [SubSeq(stack, 1, Len(stack) - 1) EXCEPT
                         ![Len(stack) - 1] = [@ EXCEPT !.pc = "got", !.ret = v]]
    /\ result' = IF Len(stack) = 1 THEN v ELSE result
    /\ UNCHANGED <<definition, entry>>

\* a step of the top frame that calls nothing
Local(f) ==
    /\ stack' = SetTop(f)
    /\ UNCHANGED <<definition, entry, result>>

\* Query(q).match(r) is called
DepthStart(queries, records) ==
    /\ definition.kind = "unset"
    /\ \E q \in queries, r \in records :
        /\ definition' = q
        /\ entry' = r
        /\ stack' = <<Frame("match", <<>>, <<>>, q, r)>>
        /\ UNCHANGED result

\* Query.match
StepMatchCall ==
    /\ TopIs("match")
    /\ IF Top.pc = "run"
       THEN Call(Top, Frame("_match", <<>>, <<>>, Top.cond, Top.ent))
       ELSE Return(Top.ret)

\* Query._match: all(...) over the items of a mapping, or the comparison
StepMatch ==
    /\ TopIs("_match")
    /\ IF Top.pc = "run" THEN
           IF IsMapping(Top.cond) THEN
               IF Top.i > Len(Top.cond.val) THEN Return(Bool(TRUE))
               ELSE Call(Top, Frame("_process_condition", Top.cond.val[Top.i][1],
                                    <<>>, Top.cond.val[Top.i][2], Top.ent))
           ELSE Return(Match(Top.cond, Top.ent))
       ELSE IF IsRaise(Top.ret) THEN Return(Top.ret)
       ELSE IF ~Truthy(Top.ret) THEN Return(Bool(FALSE))
       ELSE Local([Top EXCEPT !.pc = "run", !.i = @ + 1])

\* Query._process_condition for a field key; j is the call it waits for:
\* 1 _path_exists, 2 _extract, 3 _match
StepProcessCondition ==
    /\ TopIs("_process_condition")
    /\ IF Top.pc = "run" THEN
           IF /\ IsMapping(Top.cond) /\ HasKey(Top.cond, ExistsKey)
              /\ HasDot(Top.key)
           THEN Call(Top, Frame("_path_exists", <<>>, Split(Top.key),
                                MapGet(Top.cond, ExistsKey), Top.ent))
           ELSE IF ExistsStep(Top.key, Top.cond, Top.ent).kind # "fall"
           THEN Return(ExistsStep(Top.key, Top.cond, Top.ent))
           ELSE Call([Top EXCEPT !.j = 2],
                     Frame("_extract", <<>>, Split(Top.key), Unset, Top.ent))
       ELSE IF Top.j = 2 THEN
           IF IsRaise(Top.ret) /\ Top.ret.val # "IndexError" THEN Return(Top.ret)
           ELSE Call([Top EXCEPT !.j = 3],
                     Frame("_match", <<>>, <<>>, Top.cond,
                           IF IsRaise(Top.ret) THEN Undefined ELSE Top.ret))
       ELSE Return(Top.ret)

\* Query._extract; j and acc are the list comprehension's position and items
StepExtract ==
    /\ TopIs("_extract")
    /\ LET e == Top.ent
           path == Top.path
       IN  IF Top.pc = "run" THEN
               IF Len(path) = 0 THEN Return(e)
               ELSE IF e.kind = "null" THEN Return(e)
               ELSE IF IsNonStringSequence(e) THEN
                   IF IntParses(path[1]) THEN
                       IF IntOfSeg(path[1]) >= Len(e.val) THEN Return(Raise("IndexError"))
                       ELSE Call(Top, Frame("_extract", <<>>, Tail(path), Unset,
                                            e.val[IntOfSeg(path[1]) + 1]))
                   ELSE IF Top.j > Len(e.val) THEN Return(Arr(Top.acc))
                   ELSE Call(Top, Frame("_extract", <<>>, path, Unset, e.val[Top.j]))
               ELSE IF IsMapping(e) /\ HasKey(e, path[1]) THEN
                   Call(Top, Frame("_extract", <<>>, Tail(path), Unset, MapGet(e, path[1])))
               ELSE Return(Undefined)
           ELSE IF IsRaise(Top.ret) THEN Return(Top.ret)
           ELSE IF IsNonStringSequence(e) /\ ~IntParses(path[1]) THEN
               Local([Top EXCEPT !.pc = "run", !.j = @ + 1, !.acc = Append(@, Top.ret)])
           ELSE Return(Top.ret)

\* Query._path_exists; path is keys_list, i the position in it, ent the
\* entry the loop has reached and j the position of elem in it
StepPathExists ==
    /\ TopIs("_path_exists")
    /\ LET e == Top.ent
           keys == Top.path
           k == keys[Top.i]
       IN  IF Top.pc = "run" THEN
               IF Top.i > Len(keys) THEN Return(Top.cond)
               ELSE IF IsSequence(e) /\ ~IsDigit(k) THEN
                   IF Top.j > Len(e.val) THEN Return(Not(Top.cond))
                   ELSE Call(Top, Frame("_path_exists", <<>>,
                                        Split(Join(SubSeq(keys, Top.i, Len(keys)))),
                                        Top.cond, Elems(e)[Top.j]))
               ELSE IF IsSequence(e) THEN
                   IF ~IntParses(k) THEN Return(Raise("ValueError"))
                   ELSE IF IntOfSeg(k) >= Len(e.val) THEN Return(Not(Top.cond))
                   ELSE Local([Top EXCEPT !.i = @ + 1, !.ent = Elems(e)[IntOfSeg(k) + 1]])
               ELSE IF IsMapping(e) /\ HasKey(e, k) THEN
                   Local([Top EXCEPT !.i = @ + 1, !.ent = MapGet(e, k)])
               ELSE Return(Not(Top.cond))
           ELSE IF IsRaise(Top.ret) THEN Return(Top.ret)
           ELSE IF PyEq(Top.ret, Top.cond) THEN Return(Top.cond)
           ELSE Local([Top EXCEPT !.pc = "run", !.j = @ + 1])

DepthKeys == {<<"a", ".", "b">>, <<"a", ".", "0">>, <<"a", ".", "b", ".", "0">>}
DepthQueries ==
    {Q1(p, Q1(ExistsKey, w)) : p \in DepthKeys, w \in Bools}
    \cup {Q1(p, c) : p \in DepthKeys \cup {<<"a">>}, c \in {Null} \cup Nums}
DepthRecords ==
    {Str(<<"s">>)}
    \cup {Q1(<<"a">>, v) :
            v \in {Null, Str(<<>>), Str(<<"s">>), Arr(<<Str(<<"s">>)>>),
                   Q1(<<"b">>, Str(<<"s">>)),
                   Arr(<<Q1(<<"b">>, Null)>>),
                   Arr(<<Arr(<<Q1(<<"b">>, Null)>>)>>)}
                  \cup Nums
                  \cup Lists(Nums)
                  \cup {Q1(<<"b">>, x) : x \in Lists(Nums)}
                  \cup {Arr(<<Q1(<<"b">>, x), y>>) : x \in Lists(Nums), y \in Nums}}

NextDepth ==
    \/ DepthStart(DepthQueries, DepthRecords)
    \/ StepMatchCall
    \/ StepMatch
    \/ StepProcessCondition
    \/ StepExtract
    \/ StepPathExists
SpecDepth == Init /\ [][NextDepth]_vars

\* the call stack ends with the result that Match computes
StackComputesMatch ==
    (Matched /\ Len(stack) = 0) => Same(result, Match(definition, entry))

\* the nesting depth of a value: 0 for a scalar
RECURSIVE Depth(_)
Depth(v) ==
    IF v.kind = "arr" THEN
        1 + (IF Len(v.val) = 0 THEN 0
             ELSE LET d == {Depth(v.val[i]) : i \in 1..Len(v.val)}
                  IN  CHOOSE m \in d : \A n \in d : n <= m)
    ELSE IF v.kind = "map" THEN
        1 + (IF Len(v.val) = 0 THEN 0
             ELSE LET d == {Depth(v.val[i][2]) : i \in 1..Len(v.val)}
                  IN  CHOOSE m \in d : \A n \in d : n <= m)
    ELSE 0

Frames(fn) == Cardinality({i \in 1..Len(stack) : stack[i].fn = fn})

\* C7: match ends with a boolean or an error on every finite query and
\* record of null, booleans, numbers, strings, arrays and mappings, and the
\* recursion of _match, _extract and _path_exists is no deeper than the
\* nesting of the query and of the record: each method has at most one
\* frame for each level of nesting of the value it recurses on, and one more.
C7_RecursionDepth ==
    /\ Matched => result.kind \in {"bool", "raise"}
    /\ Frames("_match") <= Depth(definition) + 1
    /\ Frames("_extract") <= Depth(entry) + 1
    /\ Frames("_path_exists") <= Depth(entry) + 1

====
